---- MODULE Spec2Model ----
(***************************************************************************)
(* Model of the log-mel feature extractor (python_models/dsp.py) and of    *)
(* the interop verifier (python_models/verify_interop.py).                 *)
(*                                                                         *)
(* Arrays are sequences; a matrix is a sequence of rows.  Floating-point   *)
(* values that may be non-finite are records (k = "fin" / "inf" / "nan");  *)
(* a finite value v stands for v * 1e-5 (dB in the feature matrices).      *)
(* Mel energies are integers in units of amin = 1e-10.                     *)
(*                                                                         *)
(* The geometry is the program's, divided by Decimation along time and by  *)
(* MelDecimation along the mel axis.  librosa's windowed FFT and Slaney    *)
(* filterbank are real-valued; they are represented by an integer          *)
(* quadratic energy form over the same frames (see MelEnergy).             *)
(***************************************************************************)
EXTENDS Integers, Sequences, FiniteSets, TLC

VARIABLES
    pc,                  \* position inside compute_log_mel_spectrogram
    audio,               \* what librosa.load yields: [ok, y]
    waveform,            \* dsp.py: waveform
    mel_spectrogram,     \* dsp.py: mel_spectrogram  (n_mels x n_frames)
    log_mel_spectrogram, \* dsp.py: log_mel_spectrogram
    features,            \* dsp.py: features (returned)
    calls,               \* number of completed calls
    first,               \* record of the first completed call
    vpc,                 \* position inside compare_outputs
    py_features,         \* verify_interop.py: py_features
    cpp_features,        \* verify_interop.py: cpp_features
    is_close,            \* verify_interop.py: is_close, <<>> until assigned
    report               \* what compare_outputs printed

dspVars == <<pc, audio, waveform, mel_spectrogram, log_mel_spectrogram,
             features, calls, first>>
verVars == <<vpc, py_features, cpp_features, is_close, report>>
vars == <<pc, audio, waveform, mel_spectrogram, log_mel_spectrogram,
          features, calls, first, vpc, py_features, cpp_features,
          is_close, report>>

(* ---------------- program constants (dsp.py 7-12, 31) ----------------- *)
SAMPLE_RATE == 16000
CLIP_LENGTH_SAMPLES == SAMPLE_RATE
N_FFT == 512
HOP_LENGTH == 160
N_MELS == 40
DUMMY_FRAMES == 98

(* ------------------------------ bounds -------------------------------- *)
Decimation == 32       \* time axis: samples of the program per model sample
MelDecimation == 10    \* mel axis: bands of the program per model band
MaxExtra == 2          \* longest input is the clip length plus MaxExtra
MaxCalls == 3          \* calls of compute_log_mel_spectrogram in one run

(* arguments as passed to librosa, in model geometry *)
clip_length == CLIP_LENGTH_SAMPLES \div Decimation
n_fft == N_FFT \div Decimation
hop_length == HOP_LENGTH \div Decimation
n_mels == N_MELS \div MelDecimation

(* --------------------- extended (float) values ------------------------ *)
\* verify_interop.py 58: tolerance = 1e-4, in units of 1e-5
tolerance == 10
\* one decibel, in units of 1e-5
DbUnit == 10000 * tolerance
Fin(n) == [k |-> "fin", v |-> n]
PosInf == [k |-> "inf", v |-> 1]
NegInf == [k |-> "inf", v |-> -1]
NaN == [k |-> "nan", v |-> 0]
IsFinite(x) == x.k = "fin"

Abs(n) == IF n < 0 THEN -n ELSE n

\* a - b
ExtSub(a, b) ==
    IF a.k = "nan" \/ b.k = "nan" THEN NaN
    ELSE IF a.k = "fin" /\ b.k = "fin" THEN Fin(a.v - b.v)
    ELSE IF a.k = "inf" /\ b.k = "inf"
         THEN (IF a.v = b.v THEN NaN ELSE a)
    ELSE IF a.k = "inf" THEN a
    ELSE [k |-> "inf", v |-> -b.v]

\* a <= b on non-NaN values
ExtLeq(a, b) ==
    IF a.k = "fin" /\ b.k = "fin" THEN a.v <= b.v
    ELSE IF a.k = "inf" THEN (a.v = -1 \/ b = a)
    ELSE (b.k = "inf" /\ b.v = 1)

\* np.maximum: NaN propagates
ExtMax(a, b) ==
    IF a.k = "nan" \/ b.k = "nan" THEN NaN
    ELSE IF ExtLeq(a, b) THEN b ELSE a

(* ------------------------- inputs (librosa.load) ---------------------- *)
Patterns == {"silence", "tone", "ramp"}

\* sample i (1-based) of a test signal, amplitude in units of 1e-5
Sample(p, i) ==
    CASE p = "silence" -> 0
      [] p = "tone" -> IF i % 50 = 25 THEN 20000
                       ELSE IF i % 50 = 0 THEN 100 ELSE (i % 3) - 1
      [] p = "ramp" -> ((i * 7) % 11) - 5

Lengths ==
    {0, 1} \cup {clip_length + k : k \in (0 - 1)..MaxExtra}

Waveforms ==
    {[i \in 1..L |-> Sample(p, i)] : p \in Patterns, L \in Lengths}

NoArray == <<>>

(* ---------------------- dsp.py 33-39: normalizer ---------------------- *)
Zeros(n) == [i \in 1..n |-> 0]

\* faulty variant: keeps the last clip_length samples, pads on the left
NormalizeKeepLast(y) ==
    IF Len(y) > clip_length THEN SubSeq(y, Len(y) - clip_length + 1, Len(y))
    ELSE IF Len(y) < clip_length THEN Zeros(clip_length - Len(y)) \o y
    ELSE y

\* faulty variant: slices one sample too many (waveform[:CLIP_LENGTH_SAMPLES + 1])
NormalizeOneTooMany(y) ==
    IF Len(y) > clip_length THEN SubSeq(y, 1, clip_length + 1)
    ELSE IF Len(y) < clip_length THEN y \o Zeros(clip_length - Len(y))
    ELSE y

Normalize(y) ==
    IF Len(y) > clip_length THEN SubSeq(y, 1, clip_length)
    ELSE IF Len(y) < clip_length THEN y \o Zeros(clip_length - Len(y))
    ELSE y

(* ------------- dsp.py 43-51: librosa.feature.melspectrogram ----------- *)
\* np.pad(y, n, mode="reflect"), the centering of librosa.stft
PadReflect(y, n) ==
    LET L == Len(y) IN
    [j \in 1..(L + 2 * n) |->
        IF j <= n THEN y[n + 2 - j]
        ELSE IF j <= n + L THEN y[j - n]
        ELSE y[2 * L + n - j]]

\* faulty variant: the last window is not counted
FrameCountOneShort(len, frame_length, hop) == (len - frame_length) \div hop

\* librosa.util.frame: number of windows of frame_length samples, hop apart
FrameCount(len, frame_length, hop) == 1 + (len - frame_length) \div hop

RECURSIVE BandEnergy(_, _, _)
\* energy of the samples n, n + n_mels, ... of the frame starting after base
BandEnergy(p, base, n) ==
    IF n > n_fft THEN 0
    ELSE p[base + n] * p[base + n] + BandEnergy(p, base, n + n_mels)

\* faulty variant: an accumulator that is not cleared between calls
MelEnergyStale(p, t, m) == BandEnergy(p, (t - 1) * hop_length, m) + calls

\* mel energy of band m in frame t: a non-negative quadratic form of the
\* frame's samples (stands for mel_basis . |FFT(hann * frame)|^2)
MelEnergy(p, t, m) == BandEnergy(p, (t - 1) * hop_length, m)

melspectrogram(y) ==
    LET p == PadReflect(y, n_fft \div 2)
        n_frames == FrameCount(Len(p), n_fft, hop_length)
    IN  [m \in 1..n_mels |-> [t \in 1..n_frames |-> MelEnergy(p, t, m)]]

(* ------------------ dsp.py 55: librosa.power_to_db -------------------- *)
\* librosa defaults: amin = 1e-10 (the unit of energy), top_db = 80.0
amin == 1
top_db == 80 * DbUnit

Max(a, b) == IF a >= b THEN a ELSE b

RECURSIVE SeqMax(_, _, _)
\* maximum of s[lo..hi], lo <= hi, by halving
SeqMax(s, lo, hi) ==
    IF lo = hi THEN s[lo]
    ELSE LET mid == (lo + hi) \div 2
         IN  Max(SeqMax(s, lo, mid), SeqMax(s, mid + 1, hi))

\* np.max over a whole integer matrix
MatrixMax(S) ==
    SeqMax([m \in 1..Len(S) |-> SeqMax(S[m], 1, Len(S[m]))], 1, Len(S))

RECURSIVE ExtSeqMax(_, _, _)
ExtSeqMax(s, lo, hi) ==
    IF lo = hi THEN s[lo]
    ELSE LET mid == (lo + hi) \div 2
         IN  ExtMax(ExtSeqMax(s, lo, mid), ExtSeqMax(s, mid + 1, hi))

\* ndarray.max() over a matrix of float values
ExtMatrixMax(S) ==
    ExtSeqMax([m \in 1..Len(S) |-> ExtSeqMax(S[m], 1, Len(S[m]))], 1, Len(S))

RECURSIVE Decades(_)
\* floor(log10(x)) for x >= 1
Decades(x) == IF x < 10 THEN 0 ELSE 1 + Decades(x \div 10)

RECURSIVE Pow10(_)
Pow10(d) == IF d = 0 THEN 1 ELSE 10 * Pow10(d - 1)

\* ceil(1000 * 10^(k/10)) for k = 0..9
DbSteps == <<1000, 1259, 1585, 1996, 2512, 3163, 3982, 5012, 6310, 7944>>

\* floor(10 * log10(x)) for an integer x >= 1
DbFloor(x) ==
    LET d == Decades(x)
        mant == IF d >= 3 THEN x \div Pow10(d - 3) ELSE x * Pow10(3 - d)
    IN  10 * d + Cardinality({k \in 1..10 : DbSteps[k] <= mant}) - 1

\* 10 * log10(x * 1e-10), rounded down to a whole decibel; log10(0) = -inf
Log10Db(x) ==
    IF x = 0 THEN NegInf ELSE Fin((DbFloor(x) - 100) * DbUnit)

\* faulty variant: the maximum of the first band only
RefValueFirstBand(S) == SeqMax(S[1], 1, Len(S[1]))

\* ref=np.max: the reference is the maximum of the whole matrix
RefValue(S) == MatrixMax(S)

\* faulty variant: no amin floor under the logarithms
LogSpecNoFloor(S) ==
    LET log_ref == Log10Db(RefValue(S))
    IN  [m \in 1..Len(S) |-> [t \in 1..Len(S[m]) |->
            ExtSub(Log10Db(S[m][t]), log_ref)]]

\* log_spec = 10*log10(maximum(amin, S)) - 10*log10(maximum(amin, ref_value))
LogSpec(S) ==
    LET log_ref == Log10Db(Max(amin, RefValue(S)))
    IN  [m \in 1..Len(S) |-> [t \in 1..Len(S[m]) |->
            ExtSub(Log10Db(Max(amin, S[m][t])), log_ref)]]

\* faulty variant: top_db=None, no clipping
ClipNone(L) == L

\* log_spec = maximum(log_spec, log_spec.max() - top_db)
ClipTopDb(L) ==
    LET floor_db == ExtSub(ExtMatrixMax(L), Fin(top_db))
    IN  [m \in 1..Len(L) |-> [t \in 1..Len(L[m]) |-> ExtMax(L[m][t], floor_db)]]

power_to_db(S) == ClipTopDb(LogSpec(S))

(* ------------------------ dsp.py 59: transpose ------------------------ *)
Transpose(M) ==
    [t \in 1..Len(M[1]) |-> [m \in 1..Len(M) |-> M[m][t]]]

\* dsp.py 31: np.zeros((98, N_MELS))
DummyFeatures ==
    [t \in 1..DUMMY_FRAMES |-> [m \in 1..n_mels |-> Fin(0)]]

(* ------------------- compute_log_mel_spectrogram ---------------------- *)
NoCall == <<>>

\* what a completed call leaves in the call record
Remember ==
    IF first = NoCall
    THEN <<[audio |-> audio, features |-> features', others |-> FALSE]>>
    ELSE <<[first[1] EXCEPT !.others = @ \/ audio # first[1].audio]>>

\* dsp.py 23-28: librosa.load succeeds and yields a waveform
LoadOk ==
    /\ pc \in {"idle", "done"}
    /\ calls < MaxCalls
    /\ \E y \in Waveforms :
          audio' = [ok |-> TRUE, y |-> y]
    /\ waveform' = audio'.y
    /\ mel_spectrogram' = NoArray
    /\ log_mel_spectrogram' = NoArray
    /\ features' = NoArray
    /\ pc' = "loaded"
    /\ UNCHANGED <<calls, first>>
    /\ UNCHANGED verVars

\* dsp.py 29-31: librosa.load raises; the dummy features are returned
LoadFail ==
    /\ pc \in {"idle", "done"}
    /\ calls < MaxCalls
    /\ audio' = [ok |-> FALSE, y |-> NoArray]
    /\ waveform' = NoArray
    /\ mel_spectrogram' = NoArray
    /\ log_mel_spectrogram' = NoArray
    /\ features' = DummyFeatures
    /\ pc' = "done"
    /\ calls' = calls + 1
    /\ first' = IF first = NoCall
                THEN <<[audio |-> audio', features |-> features', others |-> FALSE]>>
                ELSE <<[first[1] EXCEPT !.others = @ \/ audio' # first[1].audio]>>
    /\ UNCHANGED verVars

\* dsp.py 34-39
NormalizeStep ==
    /\ pc = "loaded"
    /\ waveform' = Normalize(waveform)
    /\ pc' = "normalized"
    /\ UNCHANGED <<audio, mel_spectrogram, log_mel_spectrogram, features,
                   calls, first>>
    /\ UNCHANGED verVars

\* dsp.py 43-51
MelStep ==
    /\ pc = "normalized"
    /\ mel_spectrogram' = melspectrogram(waveform)
    /\ pc' = "mel"
    /\ UNCHANGED <<audio, waveform, log_mel_spectrogram, features, calls, first>>
    /\ UNCHANGED verVars

\* dsp.py 55
DbStep ==
    /\ pc = "mel"
    /\ log_mel_spectrogram' = power_to_db(mel_spectrogram)
    /\ pc' = "db"
    /\ UNCHANGED <<audio, waveform, mel_spectrogram, features, calls, first>>
    /\ UNCHANGED verVars

\* dsp.py 59-61
Return ==
    /\ pc = "db"
    /\ features' = Transpose(log_mel_spectrogram)
    /\ pc' = "done"
    /\ calls' = calls + 1
    /\ first' = Remember
    /\ UNCHANGED <<audio, waveform, mel_spectrogram, log_mel_spectrogram>>
    /\ UNCHANGED verVars

Init ==
    /\ pc = "idle"
    /\ audio = [ok |-> FALSE, y |-> NoArray]
    /\ waveform = NoArray
    /\ mel_spectrogram = NoArray
    /\ log_mel_spectrogram = NoArray
    /\ features = NoArray
    /\ calls = 0
    /\ first = NoCall
    /\ vpc = "off"
    /\ py_features = NoArray
    /\ cpp_features = NoArray
    /\ is_close = <<>>
    /\ report = NoArray

Next ==
    \/ LoadOk
    \/ LoadFail
    \/ NormalizeStep
    \/ MelStep
    \/ DbStep
    \/ Return

Spec == Init /\ [][Next]_vars

(* ================= verify_interop.py: compare_outputs ================= *)
\* the values the two feature matrices are drawn from: 0, the tolerance and
\* one step beyond it, and values near -80 dB, where rtol matters
VerValues ==
    {Fin(0), Fin(tolerance), Fin(tolerance + 1), Fin(0 - top_db),
     Fin(50 - top_db), Fin(91 - top_db), PosInf, NaN}

VerShapes == {<<1, 1>>, <<1, 2>>, <<2, 1>>}

Matrices ==
    UNION {[1..sh[1] -> [1..sh[2] -> VerValues]] : sh \in VerShapes}

\* np.array([]) has shape (0,)
EmptyArray == <<>>

\* ndarray.shape
Shape(M) == IF M = EmptyArray THEN <<0>> ELSE <<Len(M), Len(M[1])>>

\* numpy broadcasting of two shapes; <<>> when they are incompatible
BroadcastShape(sa, sb) ==
    LET a == IF Len(sa) = 1 THEN <<1, sa[1]>> ELSE sa
        b == IF Len(sb) = 1 THEN <<1, sb[1]>> ELSE sb
        ok(i) == a[i] = b[i] \/ a[i] = 1 \/ b[i] = 1
        dim(i) == IF a[i] = 1 THEN b[i] ELSE a[i]
    IN  IF ok(1) /\ ok(2) THEN <<dim(1), dim(2)>> ELSE <<>>

\* element (i, j) of M broadcast to a larger shape
At(M, i, j) ==
    M[IF Len(M) = 1 THEN 1 ELSE i][IF Len(M[1]) = 1 THEN 1 ELSE j]

\* the pairs of corresponding elements, in row-major order
Pairs(a, b) ==
    LET sh == BroadcastShape(Shape(a), Shape(b))
    IN  [n \in 1..(sh[1] * sh[2]) |->
            LET i == 1 + (n - 1) \div sh[2]
                j == 1 + ((n - 1) % sh[2])
            IN  <<At(a, i, j), At(b, i, j)>>]

\* numpy's default rtol = 1e-5, as its inverse
RtolInverse == 100000

\* faulty variant: the absolute tolerance alone (rtol = 0)
IsCloseAtolOnly(x, y) ==
    IF x.k = "fin" /\ y.k = "fin"
    THEN Abs(x.v - y.v) <= tolerance
    ELSE x.k = "inf" /\ y.k = "inf" /\ x.v = y.v

\* np.isclose(x, y, rtol, atol): |x - y| <= atol + rtol * |y| for finite
\* values; equal infinities are close; NaN is close to nothing
IsClose(x, y) ==
    IF x.k = "fin" /\ y.k = "fin"
    THEN Abs(x.v - y.v) <= tolerance + Abs(y.v) \div RtolInverse
    ELSE x.k = "inf" /\ y.k = "inf" /\ x.v = y.v

\* np.allclose(a, b, atol=tolerance)
AllClose(a, b) ==
    LET ps == Pairs(a, b) IN \A n \in 1..Len(ps) : IsClose(ps[n][1], ps[n][2])

ExtAbs(x) == IF x.k = "fin" THEN Fin(Abs(x.v)) ELSE IF x.k = "inf" THEN PosInf ELSE NaN

ExtAdd(a, b) == ExtSub(a, ExtSub(Fin(0), b))

ExtSquare(x) ==
    IF x.k = "fin" THEN Fin(x.v * x.v) ELSE IF x.k = "inf" THEN PosInf ELSE NaN

RECURSIVE ExtSum(_, _)
ExtSum(s, n) == IF n = 0 THEN Fin(0) ELSE ExtAdd(ExtSum(s, n - 1), s[n])

\* np.mean; of an empty array it is nan
ExtMean(s) ==
    LET t == ExtSum(s, Len(s))
    IN  IF Len(s) = 0 THEN NaN
        ELSE IF t.k = "fin" THEN Fin(t.v \div Len(s)) ELSE t

\* np.max of a flat array of floats
ExtFlatMax(s) == ExtSeqMax(s, 1, Len(s))

\* np.abs(py_features - cpp_features), flattened
AbsDiff(a, b) ==
    LET ps == Pairs(a, b) IN [n \in 1..Len(ps) |-> ExtAbs(ExtSub(ps[n][1], ps[n][2]))]

\* (py_features - cpp_features) ** 2, flattened
SquaredDiff(a, b) ==
    LET ps == Pairs(a, b) IN [n \in 1..Len(ps) |-> ExtSquare(ExtSub(ps[n][1], ps[n][2]))]

\* faulty variant: compares the number of rows only
ShapesDifferRowsOnly(a, b) == Len(a) # Len(b)

\* verify_interop.py 51: py_features.shape != cpp_features.shape
ShapesDiffer(a, b) == Shape(a) # Shape(b)

\* verify_interop.py 32: the reference's feature matrix
RunPython ==
    /\ vpc = "start"
    /\ \E M \in Matrices : py_features' = M
    /\ vpc' = "py_done"
    /\ UNCHANGED <<cpp_features, is_close, report>>
    /\ UNCHANGED dspVars

\* verify_interop.py 38-44: the port's feature matrix, as an array
RunCpp ==
    /\ vpc = "py_done"
    /\ \E M \in Matrices \cup {EmptyArray} : cpp_features' = M
    /\ vpc' = "compare"
    /\ UNCHANGED <<py_features, is_close, report>>
    /\ UNCHANGED dspVars

\* verify_interop.py 51-53
ShapeMismatch ==
    /\ vpc = "compare"
    /\ ShapesDiffer(py_features, cpp_features)
    /\ report' = Append(report, [kind |-> "shape_mismatch",
                                 py_shape |-> Shape(py_features),
                                 cpp_shape |-> Shape(cpp_features)])
    /\ vpc' = "returned"
    /\ UNCHANGED <<py_features, cpp_features, is_close>>
    /\ UNCHANGED dspVars

\* verify_interop.py 51: the shapes are equal, fall through
ShapeOk ==
    /\ vpc = "compare"
    /\ ~ShapesDiffer(py_features, cpp_features)
    /\ vpc' = "value_check"
    /\ UNCHANGED <<py_features, cpp_features, is_close, report>>
    /\ UNCHANGED dspVars

\* verify_interop.py 58-59; operands that do not broadcast raise ValueError
ValueCheck ==
    /\ vpc = "value_check"
    /\ IF BroadcastShape(Shape(py_features), Shape(cpp_features)) = <<>>
       THEN /\ vpc' = "crashed"
            /\ UNCHANGED is_close
       ELSE /\ is_close' = <<AllClose(py_features, cpp_features)>>
            /\ vpc' = "report"
    /\ UNCHANGED <<py_features, cpp_features, report>>
    /\ UNCHANGED dspVars

\* verify_interop.py 61-66
ReportSuccess ==
    /\ vpc = "report"
    /\ is_close = <<TRUE>>
    /\ report' = Append(report, [kind |-> "success",
                   mse |-> ExtMean(SquaredDiff(py_features, cpp_features))])
    /\ vpc' = "returned"
    /\ UNCHANGED <<py_features, cpp_features, is_close>>
    /\ UNCHANGED dspVars

\* verify_interop.py 67-74
ReportMismatch ==
    /\ vpc = "report"
    /\ is_close = <<FALSE>>
    /\ LET diff == AbsDiff(py_features, cpp_features)
       IN  report' = Append(report, [kind |-> "value_mismatch",
                       max_diff |-> ExtFlatMax(diff),
                       mean_diff |-> ExtMean(diff),
                       py_values |-> py_features[1],
                       cpp_values |-> cpp_features[1]])
    /\ vpc' = "returned"
    /\ UNCHANGED <<py_features, cpp_features, is_close>>
    /\ UNCHANGED dspVars

InitVerify ==
    /\ pc = "idle"
    /\ audio = [ok |-> FALSE, y |-> NoArray]
    /\ waveform = NoArray
    /\ mel_spectrogram = NoArray
    /\ log_mel_spectrogram = NoArray
    /\ features = NoArray
    /\ calls = 0
    /\ first = NoCall
    /\ vpc = "start"
    /\ py_features = NoArray
    /\ cpp_features = NoArray
    /\ is_close = <<>>
    /\ report = <<>>

NextVerify ==
    \/ RunPython
    \/ RunCpp
    \/ ShapeMismatch
    \/ ShapeOk
    \/ ValueCheck
    \/ ReportSuccess
    \/ ReportMismatch

SpecVerify == InitVerify /\ [][NextVerify]_vars

(* ============================== claims ================================ *)
Entries(M) == {M[i][j] : i \in 1..Len(M), j \in 1..Len(M[1])}

Computed == pc = "done" /\ audio.ok

\* length of the reflect-padded waveform that is framed
PaddedLength == Len(waveform) + 2 * (n_fft \div 2)

\* start offsets of the windows of n_fft samples, hop_length apart, that fit
WindowStarts(len) ==
    {st \in 0..len : st % hop_length = 0 /\ st + n_fft <= len}

AllZero(y) == \A i \in 1..Len(y) : y[i] = 0

C2_SameShapeOnEveryPath ==
    (pc = "done" /\ first # NoCall) =>
        Shape(features) = Shape(first[1].features)

(* C4: the normalizer yields exactly CLIP_LENGTH_SAMPLES samples for any   *)
(* input length: the first CLIP_LENGTH_SAMPLES samples of a longer input,  *)
(* a shorter input followed by zeros, an input of that length unchanged.   *)
C4_Normalizer ==
    (pc \in {"normalized", "mel", "db", "done"} /\ audio.ok) =>
        LET y == audio.y
            L == Len(audio.y)
        IN  /\ Len(waveform) = clip_length
            /\ L > clip_length =>
                   \A i \in 1..clip_length : waveform[i] = y[i]
            /\ L < clip_length =>
                   /\ \A i \in 1..L : waveform[i] = y[i]
                   /\ \A i \in (L + 1)..clip_length : waveform[i] = 0
            /\ L = clip_length => waveform = y

C4_Witness ==
    /\ pc = "normalized"
    /\ Len(audio.y) = clip_length - 1
    /\ ~AllZero(audio.y)
    /\ waveform[clip_length] = 0
    /\ waveform[clip_length - 1] # 0

(* C6 as stated: for an all-zero waveform, ref = 0 and                     *)
(* db = 10*log10(max(power, amin)/ref) is finite for every entry.          *)
StatedDb(power, ref) ==
    IF ref = 0 THEN PosInf
    ELSE ExtSub(Log10Db(Max(power, amin)), Log10Db(ref))

C6_StatedFormulaFinite ==
    (Computed /\ AllZero(waveform)) =>
        LET ref == RefValue(mel_spectrogram)
        IN  \A m \in 1..Len(mel_spectrogram) :
                \A t \in 1..Len(mel_spectrogram[m]) :
                    IsFinite(StatedDb(mel_spectrogram[m][t], ref))

(* C6 amended: for an all-zero waveform every mel energy and ref are 0,    *)
(* and db = 10*log10(max(power, amin)) - 10*log10(max(ref, amin)), with    *)
(* the amin floor under both logarithms, is finite for every entry.        *)
C6_ZeroInputFinite ==
    (Computed /\ AllZero(waveform)) =>
        LET ref == RefValue(mel_spectrogram)
            log_ref == Log10Db(Max(ref, amin))
        IN  /\ ref = 0
            /\ \A x \in Entries(features) : IsFinite(x)
            /\ \A m \in 1..Len(mel_spectrogram) :
                  \A t \in 1..Len(mel_spectrogram[m]) :
                      features[t][m] =
                          ExtSub(Log10Db(Max(mel_spectrogram[m][t], amin)), log_ref)

C6_Witness ==
    /\ Computed
    /\ AllZero(waveform)
    /\ Len(audio.y) = clip_length
    /\ \A x \in Entries(features) : x = Fin(0)

(* C7: no value of a returned matrix is more than 80 below the matrix's    *)
(* own maximum.                                                            *)
C7_WithinTopDb ==
    pc = "done" =>
        \A x \in Entries(features) : \A y \in Entries(features) :
            IsFinite(x) /\ IsFinite(y) /\ x.v >= y.v - top_db

\* an entry was raised to the floor by the clipping
C7_Witness ==
    /\ Computed
    /\ \E m \in 1..n_mels : \E t \in 1..Len(features) :
          /\ features[t][m] = Fin(0 - top_db)
          /\ LogSpec(mel_spectrogram)[m][t].v < 0 - top_db

(* C8: two waveforms of at least CLIP_LENGTH_SAMPLES samples that agree on *)
(* the first CLIP_LENGTH_SAMPLES give identical feature matrices.          *)
C8_TailIgnored ==
    (Computed /\ first # NoCall /\ first[1].audio.ok
       /\ Len(audio.y) >= clip_length
       /\ Len(first[1].audio.y) >= clip_length
       /\ SubSeq(audio.y, 1, clip_length) = SubSeq(first[1].audio.y, 1, clip_length))
    => features = first[1].features

C8_Witness ==
    /\ Computed
    /\ calls >= 2
    /\ first[1].audio.ok
    /\ Len(first[1].audio.y) = clip_length
    /\ Len(audio.y) > clip_length
    /\ SubSeq(audio.y, 1, clip_length) = first[1].audio.y
    /\ audio.y[clip_length + 1] # 0
    /\ features = first[1].features

C10_RangeAndMax ==
    Computed =>
        /\ Fin(0) \in Entries(features)
        /\ \A x \in Entries(features) :
              IsFinite(x) /\ x.v <= 0 /\ x.v >= 0 - top_db

C10_Witness ==
    /\ Computed
    /\ Fin(0 - top_db) \in Entries(features)
    /\ \E x \in Entries(features) : x.v < 0 /\ x.v > 0 - top_db

\* the comparison has been made and reported
Compared == vpc = "returned" /\ is_close # <<>>

PairSet == LET ps == Pairs(py_features, cpp_features)
           IN  {ps[n] : n \in 1..Len(ps)}

\* |a - b| <= 1e-4
WithinTolerance(a, b) ==
    IsFinite(a) /\ IsFinite(b) /\ Abs(a.v - b.v) <= tolerance

\* |a - b| <= 1e-4 + 1e-5 * |b|
WithinNumpyTolerance(a, b) ==
    /\ IsFinite(a)
    /\ IsFinite(b)
    /\ \E slack \in 0..(Abs(b.v) \div RtolInverse) :
          Abs(a.v - b.v) <= tolerance + slack

C5_ThreeOutcomes ==
    /\ vpc # "crashed"
    /\ Len(report) <= 1
    /\ vpc \in {"value_check", "report"} =>
           Shape(py_features) = Shape(cpp_features)
    /\ vpc = "returned" =>
           /\ Len(report) = 1
           /\ report[1].kind \in {"shape_mismatch", "success", "value_mismatch"}
           /\ report[1].kind = "shape_mismatch" <=>
                  Shape(py_features) # Shape(cpp_features)
           /\ report[1].kind = "shape_mismatch" =>
                  /\ is_close = <<>>
                  /\ report[1].py_shape = Shape(py_features)
                  /\ report[1].cpp_shape = Shape(cpp_features)
           /\ report[1].kind = "success" =>
                  /\ is_close = <<TRUE>>
                  /\ "mse" \in DOMAIN report[1]
           /\ report[1].kind = "value_mismatch" =>
                  /\ is_close = <<FALSE>>
                  /\ {"max_diff", "mean_diff"} \subseteq DOMAIN report[1]

\* a shape mismatch between operands that would not even broadcast
C5_Witness ==
    /\ vpc = "returned"
    /\ report[1].kind = "shape_mismatch"
    /\ BroadcastShape(Shape(py_features), Shape(cpp_features)) = <<>>
    /\ is_close = <<>>

====
